---- MODULE Spec2Model ----
(***************************************************************************)
(* Model of the flashcard application's spaced-repetition scheduler        *)
(* (cards/srs.py), the Card / ReviewLog / UserPreferences rows             *)
(* (cards/models.py) and the review, practice, session and deck-reset      *)
(* views (cards/views/review.py, cards/views/deck.py).                     *)
(*                                                                         *)
(* Units.  Ease factors are Python floats in the code; here they are       *)
(* integers counting hundredths (2.5 is 250, 1.3 is 130), so every         *)
(* constant of the ease formula (0.1, 0.08, 0.02) is an exact integer.     *)
(* Time is counted in whole days: timedelta(days=n) adds n.                *)
(***************************************************************************)
EXTENDS Integers, Sequences, FiniteSets, Bags, TLC

(***************************************************************************)
(* Bounds of the model.                                                    *)
(***************************************************************************)
MaxSteps == 4
MaxSelCards == 2
MaxLimit == 1
SelNow == 1
MaxEaseInput == 260
MaxIntervalInput == 3
MaxRepsInput == 2
MaxSrsReviews == 2
MaxSubmissions == 2
MaxShuffled == 4
MaxItemCards == 1
MaxPopulation == 21
MaxRetentionEase == 350
MaxDayCards == 2
MaxStreakDay == 3

(***************************************************************************)
(* cards/srs.py                                                            *)
(***************************************************************************)
MIN_EASE_FACTOR == 130
DEFAULT_EASE_FACTOR == 250
FIRST_INTERVAL == 1
SECOND_INTERVAL == 6

\* Python's round() of the rational n/d (d > 0, n >= 0): nearest integer,
\* a tie going to the even neighbour.
PyRound(n, d) ==
  LET q == n \div d
      r == n % d
  IN  IF 2 * r < d THEN q
      ELSE IF 2 * r > d THEN q + 1
      ELSE IF q % 2 = 0 THEN q ELSE q + 1

Max(a, b) == IF a >= b THEN a ELSE b
Min(a, b) == IF a <= b THEN a ELSE b

\* calculate_ease_factor without max(MIN_EASE_FACTOR, ...)
calculate_ease_factor_unfloored(current_ease, quality) ==
  current_ease + 10 - (5 - quality) * (8 + (5 - quality) * 2)

\* the adjustment with 0.09 for 0.08 (quality 4 then lowers the ease)
calculate_ease_factor_q4_drifts(current_ease, quality) ==
  IF current_ease + 10 - (5 - quality) * (9 + (5 - quality) * 2) >= MIN_EASE_FACTOR
    THEN current_ease + 10 - (5 - quality) * (9 + (5 - quality) * 2)
    ELSE MIN_EASE_FACTOR

\* the ease factor left alone by a failed review
calculate_ease_factor_ignores_failure(current_ease, quality) ==
  IF quality < 3 THEN current_ease
  ELSE IF current_ease + 10 - (5 - quality) * (8 + (5 - quality) * 2) >= MIN_EASE_FACTOR
    THEN current_ease + 10 - (5 - quality) * (8 + (5 - quality) * 2)
    ELSE MIN_EASE_FACTOR

\* the adjustment with 0.03 for 0.02
calculate_ease_factor_steeper(current_ease, quality) ==
  IF current_ease + 10 - (5 - quality) * (8 + (5 - quality) * 3) >= MIN_EASE_FACTOR
    THEN current_ease + 10 - (5 - quality) * (8 + (5 - quality) * 3)
    ELSE MIN_EASE_FACTOR

\* adjustment = 0.1 - (5 - q) * (0.08 + (5 - q) * 0.02), in hundredths
calculate_ease_factor(current_ease, quality) ==
  LET adjustment == 10 - (5 - quality) * (8 + (5 - quality) * 2)
      new_ease == current_ease + adjustment
  IN  Max(MIN_EASE_FACTOR, new_ease)

\* calculate_interval whose first interval is 0 days
calculate_interval_first_same_day(current_interval, repetitions, ease_factor, quality) ==
  IF quality < 3 THEN <<1, 0>>
  ELSE <<IF repetitions = 0 THEN 0
         ELSE IF repetitions = 1 THEN SECOND_INTERVAL
         ELSE PyRound(current_interval * ease_factor, 100),
         repetitions + 1>>

\* calculate_interval that takes quality 3 for a failure
calculate_interval_fails_hard(current_interval, repetitions, ease_factor, quality) ==
  IF quality <= 3 THEN <<1, 0>>
  ELSE <<IF repetitions = 0 THEN FIRST_INTERVAL
         ELSE IF repetitions = 1 THEN SECOND_INTERVAL
         ELSE PyRound(current_interval * ease_factor, 100),
         repetitions + 1>>

\* calculate_interval whose failed branch schedules the card for the same day
calculate_interval_failed_same_day(current_interval, repetitions, ease_factor, quality) ==
  IF quality < 3 THEN <<0, 0>>
  ELSE <<IF repetitions = 0 THEN FIRST_INTERVAL
         ELSE IF repetitions = 1 THEN SECOND_INTERVAL
         ELSE PyRound(current_interval * ease_factor, 100),
         repetitions + 1>>

\* calculate_interval whose failed branch keeps the repetition count
calculate_interval_keeps_repetitions(current_interval, repetitions, ease_factor, quality) ==
  IF quality < 3 THEN <<1, repetitions>>
  ELSE <<IF repetitions = 0 THEN FIRST_INTERVAL
         ELSE IF repetitions = 1 THEN SECOND_INTERVAL
         ELSE PyRound(current_interval * ease_factor, 100),
         repetitions + 1>>

\* returns <<new_interval, new_repetitions>>
calculate_interval(current_interval, repetitions, ease_factor, quality) ==
  IF quality < 3 THEN <<1, 0>>
  ELSE LET new_repetitions == repetitions + 1
           new_interval ==
             IF repetitions = 0 THEN FIRST_INTERVAL
             ELSE IF repetitions = 1 THEN SECOND_INTERVAL
             ELSE PyRound(current_interval * ease_factor, 100)
       IN  <<new_interval, new_repetitions>>

\* calculate_review that updates the ease factor first and computes the
\* interval from the updated value
calculate_review_updated_ease(current_ease, current_interval, repetitions, quality, review_time) ==
  LET new_ease == calculate_ease_factor(current_ease, quality)
      ir == calculate_interval(current_interval, repetitions, new_ease, quality)
  IN  [ease_factor |-> new_ease,
       interval    |-> ir[1],
       repetitions |-> ir[2],
       next_review |-> review_time + ir[1]]

\* calculate_review that adds the interval the card had, not the new one
calculate_review_old_interval(current_ease, current_interval, repetitions, quality, review_time) ==
  LET ir == calculate_interval(current_interval, repetitions, current_ease, quality)
  IN  [ease_factor |-> calculate_ease_factor(current_ease, quality),
       interval    |-> ir[1],
       repetitions |-> ir[2],
       next_review |-> review_time + current_interval]

\* The ReviewResult; the caller has checked 0 <= quality <= 5 (the ValueError
\* branch is InvalidQuality below).
calculate_review(current_ease, current_interval, repetitions, quality, review_time) ==
  LET ir == calculate_interval(current_interval, repetitions, current_ease, quality)
      new_ease == calculate_ease_factor(current_ease, quality)
  IN  [ease_factor |-> new_ease,
       interval    |-> ir[1],
       repetitions |-> ir[2],
       next_review |-> review_time + ir[1]]

\* the range check without its upper limit
InvalidQuality_no_upper_limit(quality) == quality < 0

\* quality < 0 or quality > 5: calculate_review raises ValueError, the views
\* answer 400
InvalidQuality(quality) == quality < 0 \/ quality > 5

\* estimate_retention without min(0.99, ...)
estimate_retention_uncapped(interval, ease_factor) ==
  2160 + (ease_factor - MIN_EASE_FACTOR)

\* estimate_retention, the result counted in 1/2400 (1.0 is 2400): with the
\* ease factor in hundredths, 0.05 * (e - 1.3) / (2.5 - 1.3) is
\* (e - 130) / 2400; 0.9 is 2160 and 0.99 is 2376.  interval is a
\* parameter the function never reads.
estimate_retention(interval, ease_factor) ==
  LET base_retention == 2160
      ease_boost == (5 * (ease_factor - MIN_EASE_FACTOR) * 2400)
                      \div (100 * (DEFAULT_EASE_FACTOR - MIN_EASE_FACTOR))
  IN  Min(2376, base_retention + ease_boost)

(***************************************************************************)
(* State.                                                                  *)
(*   now         the clock, in days (timezone.now())                       *)
(*   cards       the Card table: pk -> row                                 *)
(*   review_logs the ReviewLog table, rows in insertion order              *)
(*   prefs       the user's UserPreferences row (streak and email columns) *)
(*   limits      its max_reviews_per_session and new_cards_per_day columns *)
(*   email_log   the user's achievement EmailLog rows (achievement keys)   *)
(*   next_pk     the next primary key of the Card table                    *)
(*   accepted    per card pk, how many review_card requests answered 200   *)
(*   steps       how many requests have changed the database, clock ticks  *)
(*               included                                                  *)
(*   response    what the last request returned                            *)
(*   srs_card, srs_call   a bare schedule driven through calculate_review  *)
(*   retention   the last two results of estimate_retention                *)
(*   reqs, submitted      review_card requests in flight (ConcSpec)        *)
(*   session     the review page in the user's browser: the items of the   *)
(*               batch it was loaded with that are not answered yet        *)
(***************************************************************************)
VARIABLES now, cards, review_logs, prefs, limits, email_log, next_pk,
          accepted, steps, response, srs_card, srs_call, retention, reqs, submitted,
          session

dbVars == <<now, cards, review_logs, prefs, limits, email_log, next_pk, accepted, steps>>
srsVars == <<srs_card, srs_call, retention>>
concVars == <<reqs, submitted>>
clientVars == <<session>>
vars == <<now, cards, review_logs, prefs, limits, email_log, next_pk,
          accepted, steps, response, srs_card, srs_call, retention, reqs, submitted,
          session>>

Pks == 1..(MaxSteps + 1)
Decks == {1, 2}
NoDeck == 0
NoTime == -1
NoCloze == 0

\* What a card can hold: its type and, for front, the group numbers of the
\* cloze deletions CLOZE_PATTERN finds in the text, in text order.
Contents ==
  { [card_type |-> "basic", front |-> <<>>],
    [card_type |-> "cloze", front |-> <<1, 2, 1>>] }

\* Request bodies of review_card / practice_card: {"quality": v}, a body
\* without the key, and a body int() or json.loads() rejects.
Bodies ==
  [kind : {"int"}, v : -1..6] \cup
  { [kind |-> "missing", v |-> 0], [kind |-> "invalid", v |-> 0] }

\* Card(deck=..., card_type=..., front=...) with the field defaults
NewCard(deck, content, t) ==
  [deck              |-> deck,
   card_type         |-> content.card_type,
   front             |-> content.front,
   ease_factor       |-> DEFAULT_EASE_FACTOR,
   interval          |-> 0,
   repetitions       |-> 0,
   next_review       |-> t,
   last_reviewed     |-> NoTime,
   has_been_reviewed |-> FALSE]

\* The scheduling fields of a card row
Schedule(card) ==
  [ease_factor       |-> card.ease_factor,
   interval          |-> card.interval,
   repetitions       |-> card.repetitions,
   next_review       |-> card.next_review,
   last_reviewed     |-> card.last_reviewed,
   has_been_reviewed |-> card.has_been_reviewed]

LogsOf(logs, pk) == SelectSeq(logs, LAMBDA l : l.card = pk)

\* Card.review: the row after the review (self.save() writes every field)
CardReviewRow(card, quality, t) ==
  LET result == calculate_review(card.ease_factor, card.interval,
                                 card.repetitions, quality, t)
  IN  [card EXCEPT !.ease_factor = result.ease_factor,
                   !.interval = result.interval,
                   !.repetitions = result.repetitions,
                   !.next_review = result.next_review,
                   !.last_reviewed = t,
                   !.has_been_reviewed = TRUE]

\* card.review(q) called for each q of qualities in turn, each call on the
\* row the one before it saved
RECURSIVE SerialReviews(_, _, _)
SerialReviews(card, qualities, t) ==
  IF qualities = <<>> THEN card
  ELSE SerialReviews(CardReviewRow(card, Head(qualities), t), Tail(qualities), t)

\* Card.review: the ReviewLog row it creates
CardReviewLog(pk, card, quality, t) ==
  LET result == calculate_review(card.ease_factor, card.interval,
                                 card.repetitions, quality, t)
  IN  [card               |-> pk,
       quality            |-> quality,
       ease_factor_before |-> card.ease_factor,
       ease_factor_after  |-> result.ease_factor,
       interval_before    |-> card.interval,
       interval_after     |-> result.interval,
       reviewed_at        |-> t]

\* update_streak that goes on counting after a day without study
update_streak_over_gap(p, today) ==
  LET q == IF p.last_study_date = NoTime
             THEN [p EXCEPT !.current_streak = 1, !.last_study_date = today]
           ELSE IF p.last_study_date = today
             THEN p
           ELSE [p EXCEPT !.current_streak = p.current_streak + 1,
                          !.last_study_date = today]
  IN  IF q.current_streak > q.longest_streak
        THEN [q EXCEPT !.longest_streak = q.current_streak]
        ELSE q

\* UserPreferences.update_streak
update_streak(p, today) ==
  LET q == IF p.last_study_date = NoTime
             THEN [p EXCEPT !.current_streak = 1, !.last_study_date = today]
           ELSE IF p.last_study_date = today
             THEN p
           ELSE IF p.last_study_date = today - 1
             THEN [p EXCEPT !.current_streak = p.current_streak + 1,
                            !.last_study_date = today]
           ELSE [p EXCEPT !.current_streak = 1, !.last_study_date = today]
  IN  IF q.current_streak > q.longest_streak
        THEN [q EXCEPT !.longest_streak = q.current_streak]
        ELSE q

\* cards/email.py
can_send_email(p) ==
  IF p.email_unsubscribed THEN FALSE ELSE p.email_achievement_notifications

\* cards/achievements.py: the keys in the order the two loops test them
ReviewAchievements ==
  << [key |-> "first_review", threshold |-> 1],
     [key |-> "reviews_100", threshold |-> 100],
     [key |-> "reviews_500", threshold |-> 500],
     [key |-> "reviews_1000", threshold |-> 1000] >>
StreakAchievements ==
  << [key |-> "streak_7", threshold |-> 7],
     [key |-> "streak_30", threshold |-> 30],
     [key |-> "streak_100", threshold |-> 100] >>

SeqHas(s, x) == \E i \in DOMAIN s : s[i] = x

\* One loop of check_and_send_achievements: _award_achievement_if_new for
\* every key whose threshold the stat reaches; elog is the EmailLog after it.
RECURSIVE AwardLoop(_, _, _, _)
AwardLoop(table, i, stat, elog) ==
  IF i > Len(table) THEN elog
  ELSE IF stat >= table[i].threshold /\ ~SeqHas(elog, table[i].key)
         THEN AwardLoop(table, i + 1, stat, Append(elog, table[i].key))
         ELSE AwardLoop(table, i + 1, stat, elog)

check_and_send_achievements(p, logs, elog) ==
  IF ~can_send_email(p) THEN elog
  ELSE AwardLoop(StreakAchievements, 1, p.current_streak,
                 AwardLoop(ReviewAchievements, 1, Len(logs), elog))

\* the accepted review without the ReviewLog row
ReviewEffect_without_log(db, pk, quality, t) ==
  LET p == update_streak(db.prefs, t)
  IN  [cards       |-> [db.cards EXCEPT ![pk] = CardReviewRow(db.cards[pk], quality, t)],
       review_logs |-> db.review_logs,
       prefs       |-> p,
       email_log   |-> check_and_send_achievements(p, db.review_logs, db.email_log),
       accepted    |-> [db.accepted EXCEPT ![pk] = db.accepted[pk] + 1]]

\* review_card once the quality is accepted: card.review(quality), then
\* prefs.update_streak(), then check_and_send_achievements(user); db holds the
\* tables it reads and writes, t is timezone.now().
ReviewEffect(db, pk, quality, t) ==
  LET logs == Append(db.review_logs, CardReviewLog(pk, db.cards[pk], quality, t))
      p == update_streak(db.prefs, t)
  IN  [cards       |-> [db.cards EXCEPT ![pk] = CardReviewRow(db.cards[pk], quality, t)],
       review_logs |-> logs,
       prefs       |-> p,
       email_log   |-> check_and_send_achievements(p, logs, db.email_log),
       accepted    |-> [db.accepted EXCEPT ![pk] = db.accepted[pk] + 1]]

Db ==
  [cards |-> cards, review_logs |-> review_logs, prefs |-> prefs,
   email_log |-> email_log, accepted |-> accepted]

NoResponse ==
  [view |-> "none", status |-> 0, quality |-> 0, asked |-> NoDeck, deck |-> NoDeck,
   due_cards |-> {}, new_cards |-> {}, cards |-> {}, cards_data |-> EmptyBag]

Reply(view, status, quality) ==
  [NoResponse EXCEPT !.view = view, !.status = status, !.quality = quality]

(***************************************************************************)
(* cards/views/review.py: session selection                                *)
(***************************************************************************)
target_session_size == 20

\* a deck filter that lets every card through
DeckFilter_every_deck(deck_pk) == DOMAIN cards

\* deck_filter: {'deck': deck} when deck_pk is given, else every card of the
\* user's decks (a single user, who owns every deck)
DeckFilter(deck_pk) ==
  {pk \in DOMAIN cards : deck_pk = NoDeck \/ cards[pk].deck = deck_pk}

\* the due query without has_been_reviewed=True
due_cards_query_any_card(deck_pk) ==
  {pk \in DeckFilter(deck_pk) : cards[pk].next_review <= now}

\* Card.objects.filter(**deck_filter, next_review__lte=now, has_been_reviewed=True)
due_cards_query(deck_pk) ==
  {pk \in DeckFilter(deck_pk) :
     cards[pk].next_review <= now /\ cards[pk].has_been_reviewed}

\* Card.is_due
is_due(pk) == cards[pk].repetitions > 0 /\ cards[pk].next_review <= now

\* send_reminders Command._get_due_cards_count
get_due_cards_count ==
  Cardinality({pk \in DOMAIN cards :
                 cards[pk].next_review <= now /\ cards[pk].repetitions > 0})

\* Deck.cards_due_count
cards_due_count(deck) ==
  Cardinality({pk \in DOMAIN cards :
                 /\ cards[pk].deck = deck
                 /\ cards[pk].next_review <= now
                 /\ cards[pk].has_been_reviewed})

\* the new-card query that offers nothing once new_cards_per_day cards have
\* had their first review today
new_cards_query_daily_counter(deck_pk) ==
  LET first_today ==
        {pk \in DOMAIN cards :
           \E i \in DOMAIN review_logs :
             /\ review_logs[i].card = pk
             /\ review_logs[i].reviewed_at = now
             /\ \A j \in 1..(i - 1) : review_logs[j].card # pk}
  IN  IF Cardinality(first_today) >= limits.new_cards_per_day THEN {}
      ELSE {pk \in DeckFilter(deck_pk) : ~cards[pk].has_been_reviewed}

\* Card.objects.filter(**deck_filter, has_been_reviewed=False)
new_cards_query(deck_pk) ==
  {pk \in DeckFilter(deck_pk) : ~cards[pk].has_been_reviewed}

\* Card.objects.filter(deck__owner=user, ease_factor__lt=2.0, has_been_reviewed=True)
struggling_cards_query ==
  {pk \in DOMAIN cards :
     cards[pk].ease_factor < 200 /\ cards[pk].has_been_reviewed}

\* Card.objects.filter(**deck_filter, next_review__gt=now, has_been_reviewed=True)
practice_cards_query(deck_pk) ==
  {pk \in DeckFilter(deck_pk) :
     cards[pk].next_review > now /\ cards[pk].has_been_reviewed}

\* the subsets of S that have k elements
RECURSIVE KSubsets(_, _)
KSubsets(S, k) ==
  IF k = 0 THEN {{}}
  ELSE IF Cardinality(S) < k THEN {}
  ELSE IF Cardinality(S) = k THEN {S}
  ELSE LET x == CHOOSE y \in S : TRUE
       IN  {T \cup {x} : T \in KSubsets(S \ {x}, k - 1)} \cup KSubsets(S \ {x}, k)

\* a slice that keeps any k rows, whatever their next_review
FirstK_unordered(S, k) ==
  KSubsets(S, IF Cardinality(S) <= k THEN Cardinality(S) ELSE k)

\* the queryset without the slice
FirstK_unsliced(S, k) == {S}

\* queryset[:k] under Meta.ordering = ['next_review']: the first k rows by
\* next_review; rows with equal next_review come in an order the database
\* chooses, so every choice among ties is possible.
FirstK(S, k) ==
  IF Cardinality(S) <= k THEN {S}
  ELSE LET Before(t) == {s \in S : cards[s].next_review < t}
           Ties(t) == {s \in S : cards[s].next_review = t}
           cutoff == CHOOSE t \in {cards[s].next_review : s \in S} :
                       /\ Cardinality(Before(t)) <= k
                       /\ Cardinality(Before(t)) + Cardinality(Ties(t)) >= k
       IN  {Before(cutoff) \cup T :
              T \in KSubsets(Ties(cutoff), k - Cardinality(Before(cutoff)))}

\* one number per blank, repeated numbers counted again
get_cloze_numbers_per_blank(front) == DOMAIN front

\* cloze.get_cloze_numbers
get_cloze_numbers(front) == {front[i] : i \in DOMAIN front}

\* The items one card is serialized to: one per cloze number for a cloze
\* card, else a single item with active_cloze None.
CardItems(pk) ==
  IF cards[pk].card_type = "cloze"
    THEN {<<pk, num>> : num \in get_cloze_numbers(cards[pk].front)}
    ELSE {<<pk, NoCloze>>}

Serialize(S) == UNION {CardItems(pk) : pk \in S}

\* the elements of a set, listed in some order
RECURSIVE SetToSeq(_)
SetToSeq(S) ==
  IF S = {} THEN <<>>
  ELSE LET x == CHOOSE y \in S : TRUE IN <<x>> \o SetToSeq(S \ {x})

\* every order random.shuffle can leave a list of the items of I in
Shuffles(I) ==
  LET listed == SetToSeq(I)
  IN  {[i \in 1..Len(listed) |-> f[listed[i]]] : f \in Permutations(I)}

\* How many leading items of the shuffled list decide which items the batch
\* holds and how often: the target_session_size that the trim keeps, or the
\* target_session_size % n that the padding loop's last, partial pass
\* repeats once more than the others
Lead(n) ==
  IF n > target_session_size THEN target_session_size
  ELSE IF n < target_session_size THEN target_session_size % n
  ELSE 0

\* The orders random.shuffle is followed through: every order of up to
\* MaxShuffled items; of more items, one order for each choice of the
\* Lead items that come first (orders that agree on that choice give
\* batches with the same items the same number of times).
ShuffleOutcomes(I) ==
  IF Cardinality(I) <= MaxShuffled THEN Shuffles(I)
  ELSE {SetToSeq(F) \o SetToSeq(I \ F) : F \in KSubsets(I, Lead(Cardinality(I)))}

\* while len(cards_data) < target: append original_cards[len % len(original)]:
\* the element appended at length len (position len + 1) is
\* original_cards[len % len(original_cards)] (0-based)
PadLoop(cards_data, original_cards) ==
  [i \in 1..Max(Len(cards_data), target_session_size) |->
     IF i <= Len(cards_data) THEN cards_data[i]
     ELSE original_cards[((i - 1) % Len(original_cards)) + 1]]

\* review_struggling that pads a short list and leaves a long one as it is
SizeToTarget_untrimmed(shuffled) ==
  IF Len(shuffled) < target_session_size
    THEN [i \in 1..target_session_size |-> shuffled[((i - 1) % Len(shuffled)) + 1]]
    ELSE shuffled

\* review_struggling after the first shuffle: trim to the target or pad to it
SizeToTarget(shuffled) ==
  IF Len(shuffled) > target_session_size
    THEN SubSeq(shuffled, 1, target_session_size)
  ELSE IF Len(shuffled) < target_session_size
    THEN PadLoop(shuffled, shuffled)
  ELSE shuffled

\* the items of a list, with multiplicity (what every later shuffle keeps)
SeqToBag(s) ==
  [x \in {s[i] : i \in DOMAIN s} |-> Cardinality({i \in DOMAIN s : s[i] = x})]

\* The review page the browser holds once a session view has answered: the
\* batch to go through (InProgress) after a 200, nothing to do (Completed)
\* after the redirect to the dashboard, an error page after a 500.
NoSession == [state |-> "NotStarted", remaining |-> EmptyBag]
PageLoaded(r) ==
  IF r.status = 200 THEN [state |-> "InProgress", remaining |-> r.cards_data]
  ELSE IF r.status = 302 THEN [state |-> "Completed", remaining |-> EmptyBag]
  ELSE [state |-> "Error", remaining |-> EmptyBag]

Selected(view, deck_pk, due, new, data) ==
  [NoResponse EXCEPT !.view = view, !.status = 200,
                     !.asked = deck_pk, !.deck = deck_pk,
                     !.due_cards = due, !.new_cards = new,
                     !.cards = due \cup new, !.cards_data = data]

Redirect(view, deck_pk) ==
  [NoResponse EXCEPT !.view = view, !.status = 302,
                     !.asked = deck_pk, !.deck = deck_pk]

review_session(deck_pk) ==
  /\ \E due_cards \in
         (IF limits.max_reviews_per_session > 0
            THEN FirstK(due_cards_query(deck_pk), limits.max_reviews_per_session)
            ELSE {due_cards_query(deck_pk)}) :
       \E new_cards \in FirstK(new_cards_query(deck_pk), limits.new_cards_per_day) :
         LET sel == due_cards \cup new_cards
         IN  response' =
               IF sel = {} THEN Redirect("review_session", deck_pk)
               ELSE Selected("review_session", deck_pk, due_cards, new_cards,
                             SetToBag(Serialize(sel)))
  /\ session' = PageLoaded(response')
  /\ UNCHANGED <<dbVars, srsVars, concVars>>

\* deck_pk is a deck the client names in the request (the route takes none
\* and the view reads no parameter): the context's deck is None.  A
\* struggling set that expands to no item makes the padding loop divide by
\* len(original_cards) = 0: ZeroDivisionError, a 500 answer.
review_struggling(deck_pk) ==
  /\ LET struggling_cards == struggling_cards_query
     IN  IF struggling_cards = {}
           THEN response' = [Redirect("review_struggling", deck_pk) EXCEPT !.deck = NoDeck]
         ELSE IF Serialize(struggling_cards) = {}
           THEN response' = [Reply("review_struggling", 500, 0) EXCEPT !.asked = deck_pk]
         ELSE \E data \in {SeqToBag(SizeToTarget(shuffled)) :
                             shuffled \in ShuffleOutcomes(Serialize(struggling_cards))} :
                response' =
                  [Selected("review_struggling", deck_pk, {}, {}, data)
                     EXCEPT !.deck = NoDeck, !.cards = struggling_cards]
  /\ session' = PageLoaded(response')
  /\ UNCHANGED <<dbVars, srsVars, concVars>>

practice_session(deck_pk) ==
  /\ \E practice_cards \in FirstK(practice_cards_query(deck_pk), target_session_size) :
       response' =
         IF practice_cards = {} THEN Redirect("practice_session", deck_pk)
         ELSE [Selected("practice_session", deck_pk, {}, {},
                        SetToBag(Serialize(practice_cards)))
                 EXCEPT !.cards = practice_cards]
  /\ session' = PageLoaded(response')
  /\ UNCHANGED <<dbVars, srsVars, concVars>>

(***************************************************************************)
(* Requests that change the database                                       *)
(***************************************************************************)
\* quality = int(data.get('quality', 0)); "invalid" raises in json.loads/int
ParsedQuality(body) == IF body.kind = "int" THEN body.v ELSE 0

\* CardCreateView.form_valid / deck_import: Card.objects.create
card_create(deck, content) ==
  /\ steps < MaxSteps
  /\ cards' = (next_pk :> NewCard(deck, content, now)) @@ cards
  /\ next_pk' = next_pk + 1
  /\ steps' = steps + 1
  /\ response' = Reply("card_create", 302, 0)
  /\ UNCHANGED <<now, review_logs, prefs, limits, email_log, accepted>>
  /\ UNCHANGED <<srsVars, concVars, clientVars>>

\* CardDeleteView: the row goes, and its ReviewLog rows with it (CASCADE)
card_delete(pk) ==
  /\ steps < MaxSteps
  /\ pk \in DOMAIN cards
  /\ cards' = [k \in DOMAIN cards \ {pk} |-> cards[k]]
  /\ review_logs' = SelectSeq(review_logs, LAMBDA l : l.card # pk)
  /\ steps' = steps + 1
  /\ response' = Reply("card_delete", 302, 0)
  /\ UNCHANGED <<now, prefs, limits, email_log, next_pk, accepted>>
  /\ UNCHANGED <<srsVars, concVars, clientVars>>

\* deck.cards.update(...) of deck_reset: the fields it names, no others
ResetRow(card) ==
  [card EXCEPT !.ease_factor = DEFAULT_EASE_FACTOR,
               !.interval = 0,
               !.repetitions = 0,
               !.next_review = now,
               !.last_reviewed = NoTime]

deck_reset(deck, name_matches) ==
  /\ IF ~name_matches
       THEN /\ response' = Reply("deck_reset", 400, 0)
            /\ UNCHANGED <<cards, review_logs, steps>>
       ELSE /\ steps < MaxSteps
            /\ cards' = [pk \in DOMAIN cards |->
                           IF cards[pk].deck = deck THEN ResetRow(cards[pk])
                           ELSE cards[pk]]
            /\ review_logs' =
                 SelectSeq(review_logs, LAMBDA l : cards[l.card].deck # deck)
            /\ steps' = steps + 1
            /\ response' = [Reply("deck_reset", 200, 0) EXCEPT !.deck = deck]
  /\ UNCHANGED <<now, prefs, limits, email_log, next_pk, accepted>>
  /\ UNCHANGED <<srsVars, concVars, clientVars>>

review_card(pk, body) ==
  /\ IF pk \notin DOMAIN cards
       THEN /\ response' = Reply("review_card", 404, 0)
            /\ UNCHANGED <<cards, review_logs, prefs, email_log, accepted, steps>>
     ELSE IF body.kind = "invalid"
       THEN /\ response' = Reply("review_card", 400, 0)
            /\ UNCHANGED <<cards, review_logs, prefs, email_log, accepted, steps>>
     ELSE IF InvalidQuality(ParsedQuality(body))
       THEN /\ response' = Reply("review_card", 400, ParsedQuality(body))
            /\ UNCHANGED <<cards, review_logs, prefs, email_log, accepted, steps>>
     ELSE LET quality == ParsedQuality(body)
              db == ReviewEffect(Db, pk, quality, now)
          IN  /\ steps < MaxSteps
              /\ cards' = db.cards
              /\ review_logs' = db.review_logs
              /\ prefs' = db.prefs
              /\ email_log' = db.email_log
              /\ accepted' = db.accepted
              /\ steps' = steps + 1
              /\ response' = Reply("review_card", 200, quality)
  /\ UNCHANGED <<now, next_pk, limits>>
  /\ UNCHANGED <<srsVars, concVars, clientVars>>

\* practice_card that records the answer as review_card does
practice_card_as_review(pk, body) ==
  /\ IF pk \notin DOMAIN cards
       THEN /\ response' = Reply("practice_card", 404, 0)
            /\ UNCHANGED <<cards, review_logs, prefs, email_log, accepted, steps>>
     ELSE IF body.kind = "invalid" \/ InvalidQuality(ParsedQuality(body))
       THEN /\ response' = Reply("practice_card", 400, 0)
            /\ UNCHANGED <<cards, review_logs, prefs, email_log, accepted, steps>>
     ELSE LET db == ReviewEffect(Db, pk, ParsedQuality(body), now)
          IN  /\ steps < MaxSteps
              /\ cards' = db.cards
              /\ review_logs' = db.review_logs
              /\ prefs' = db.prefs
              /\ email_log' = db.email_log
              /\ accepted' = db.accepted
              /\ steps' = steps + 1
              /\ response' = Reply("practice_card", 200, ParsedQuality(body))
  /\ UNCHANGED <<now, next_pk, limits>>
  /\ UNCHANGED <<srsVars, concVars, clientVars>>

practice_card(pk, body) ==
  /\ IF pk \notin DOMAIN cards
       THEN /\ response' = Reply("practice_card", 404, 0)
            /\ UNCHANGED <<prefs, steps>>
     ELSE IF body.kind = "invalid" \/ InvalidQuality(ParsedQuality(body))
       THEN /\ response' = Reply("practice_card", 400, 0)
            /\ UNCHANGED <<prefs, steps>>
     ELSE /\ steps < MaxSteps
          /\ prefs' = update_streak(prefs, now)
          /\ steps' = steps + 1
          /\ response' = Reply("practice_card", 200, ParsedQuality(body))
  /\ UNCHANGED <<now, cards, review_logs, limits, email_log, next_pk, accepted>>
  /\ UNCHANGED <<srsVars, concVars, clientVars>>

\* a day passes
Tick ==
  /\ steps < MaxSteps
  /\ now' = now + 1
  /\ steps' = steps + 1
  /\ response' = NoResponse
  /\ UNCHANGED <<cards, review_logs, prefs, limits, email_log, next_pk, accepted>>
  /\ UNCHANGED <<srsVars, concVars, clientVars>>

(***************************************************************************)
(* Initial state: no card yet, a UserPreferences row with the streak       *)
(* defaults.                                                               *)
(***************************************************************************)
InitPrefs ==
  [current_streak |-> 0,
   longest_streak |-> 0,
   last_study_date |-> NoTime,
   email_achievement_notifications |-> TRUE,
   email_unsubscribed |-> FALSE]

Limits(max_reviews, new_cards) ==
  [max_reviews_per_session |-> max_reviews, new_cards_per_day |-> new_cards]

NoSchedule == [ease_factor |-> 0, interval |-> 0, repetitions |-> 0, next_review |-> 0]
NoCall == [n |-> 0, quality |-> -1, raised |-> FALSE, before |-> NoSchedule]

NoEstimate == [interval |-> -1, ease_factor |-> 0, value |-> 0]
NoRetention == [n |-> 0, last |-> NoEstimate, before |-> NoEstimate]

SrsIdle == srs_card = NoSchedule /\ srs_call = NoCall /\ retention = NoRetention
ConcIdle == reqs = <<>> /\ submitted = <<>> /\ session = NoSession

EmptyDb ==
  /\ cards = [pk \in {} |-> 0]
  /\ review_logs = <<>>
  /\ prefs = InitPrefs
  /\ limits = Limits(0, 0)
  /\ email_log = <<>>
  /\ next_pk = 1
  /\ accepted = [pk \in Pks |-> 0]
  /\ steps = 0
  /\ response = NoResponse

Init ==
  /\ now = 0
  /\ EmptyDb
  /\ SrsIdle
  /\ ConcIdle

\* The pk of a request URL: a card that exists, or one that does not (the
\* next unused pk stands for every pk without a row).
RequestPks == DOMAIN cards \cup {next_pk}

\* The lifecycle requests never read card_type or front: Spec creates basic
\* cards, SelSpec below has the cloze cards.
LifecycleContents == {[card_type |-> "basic", front |-> <<>>]}

Next ==
  \/ \E deck \in Decks : \E content \in LifecycleContents : card_create(deck, content)
  \/ \E pk \in RequestPks : card_delete(pk)
  \/ \E deck \in Decks : \E ok \in BOOLEAN : deck_reset(deck, ok)
  \/ \E pk \in RequestPks : \E body \in Bodies : review_card(pk, body)
  \/ \E pk \in RequestPks : \E body \in Bodies : practice_card(pk, body)
  \/ Tick

Spec == Init /\ [][Next]_vars

\* C4: a review_card request whose quality is outside 0..5 is answered with
\* an error (400) and changes nothing: no card row (ease factor, interval,
\* repetitions, next_review, last_reviewed, has_been_reviewed), no ReviewLog
\* row, not the streak, no achievement.
C4_InvalidQualityChangesNothing ==
  [][(response'.view = "review_card"
        /\ (response'.quality < 0 \/ response'.quality > 5))
       => /\ response'.status = 400
          /\ UNCHANGED <<cards, review_logs, prefs, email_log, accepted>>]_vars

\* quality 6 refused for a card that has a review behind it
C4_Witness ==
  /\ response.view = "review_card"
  /\ response.status = 400
  /\ response.quality = 6
  /\ \E pk \in DOMAIN cards : cards[pk].has_been_reviewed
  /\ review_logs # <<>>

\* C6 as the specification states it: at any time a card has as many
\* ReviewLog rows as it has had accepted reviews.
C6_LogCountEqualsAcceptedReviews ==
  \A pk \in DOMAIN cards : Len(LogsOf(review_logs, pk)) = accepted[pk]

\* C6: in every step, for every card that stays, either a review of the
\* card is accepted and exactly one ReviewLog row is appended to its rows,
\* the existing ones untouched; or no review of it is accepted and its rows
\* are the same; or a confirmed deck_reset of the card's deck removes all of
\* its rows.
C6_LogAppendOnlyUntilDeckReset ==
  [][\A pk \in DOMAIN cards \cap DOMAIN cards' :
       LET old == LogsOf(review_logs, pk)
           new == LogsOf(review_logs', pk)
       IN  \/ /\ accepted'[pk] = accepted[pk] + 1
              /\ Len(new) = Len(old) + 1
              /\ SubSeq(new, 1, Len(old)) = old
           \/ /\ accepted'[pk] = accepted[pk]
              /\ new = old
           \/ /\ response'.view = "deck_reset"
              /\ response'.status = 200
              /\ response'.deck = cards[pk].deck
              /\ accepted'[pk] = accepted[pk]
              /\ new = <<>>]_vars

\* a card reviewed, its deck reset, the card reviewed again: two accepted
\* reviews, one ReviewLog row
C6_Witness ==
  \E pk \in DOMAIN cards :
    /\ accepted[pk] = 2
    /\ Len(LogsOf(review_logs, pk)) = 1
    /\ response.view = "review_card"
    /\ response.status = 200

\* C7: a practice_card request with a valid quality changes no card row and
\* no ReviewLog row; it changes the streak fields of the preferences and
\* nothing else.
C7_PracticeOnlyUpdatesStreak ==
  [][(response'.view = "practice_card" /\ response'.status = 200)
       => /\ UNCHANGED <<cards, review_logs, email_log, accepted, limits, next_pk, now>>
          /\ prefs'.last_study_date = now
          /\ prefs'.current_streak >= 1
          /\ prefs'.email_achievement_notifications = prefs.email_achievement_notifications
          /\ prefs'.email_unsubscribed = prefs.email_unsubscribed]_vars

\* a practice answer on the day after a review: the streak is 2, the card
\* as the review left it
C7_Witness ==
  /\ response.view = "practice_card"
  /\ response.status = 200
  /\ prefs.current_streak = 2
  /\ prefs.last_study_date = now
  /\ \E pk \in DOMAIN cards :
       /\ cards[pk].has_been_reviewed
       /\ cards[pk].last_reviewed = now - 1
       /\ Len(LogsOf(review_logs, pk)) = 1

\* C8: at any time a card's has_been_reviewed is true exactly when the card
\* has at least one ReviewLog row.
C8_ReviewedIffHasLog ==
  \A pk \in DOMAIN cards :
    cards[pk].has_been_reviewed <=> (Len(LogsOf(review_logs, pk)) > 0)

\* C19: an accepted review made at time now leaves the reviewed card with
\* next_review = now + its new interval (in days), the interval that the
\* review's ReviewLog row records as interval_after.
C19_NextReviewIsNowPlusInterval ==
  [][(response'.view = "review_card" /\ response'.status = 200) =>
       \E pk \in DOMAIN cards' :
         /\ accepted'[pk] = accepted[pk] + 1
         /\ review_logs' # <<>>
         /\ review_logs'[Len(review_logs')].card = pk
         /\ cards'[pk].interval = review_logs'[Len(review_logs')].interval_after
         /\ cards'[pk].next_review = now + cards'[pk].interval]_vars

\* the second passing review of a card, made on day 1: due on day 7
C19_Witness ==
  /\ response.view = "review_card"
  /\ response.status = 200
  /\ now = 1
  /\ \E pk \in DOMAIN cards :
       /\ cards[pk].last_reviewed = 1
       /\ cards[pk].repetitions = 2
       /\ cards[pk].interval = 6
       /\ cards[pk].next_review = 7

\* C26: for every card that was created and reviewed (a new card, or a
\* card with its ReviewLog rows: none that a deck reset has gone over),
\* Card.is_due() holds exactly when the due query of the session selector
\* holds the card, also after a failed review; and when every card is of
\* that kind, the reminder command's count of due cards is the number of
\* cards in the due query and the sum of Deck.cards_due_count.
C26_DuePredicatesAgree ==
  LET Plain(pk) == ~cards[pk].has_been_reviewed \/ LogsOf(review_logs, pk) # <<>>
  IN  /\ \A pk \in DOMAIN cards :
           Plain(pk) => (is_due(pk) <=> pk \in due_cards_query(NoDeck))
      /\ (\A pk \in DOMAIN cards : Plain(pk)) =>
           /\ get_due_cards_count = Cardinality(due_cards_query(NoDeck))
           /\ get_due_cards_count = cards_due_count(1) + cards_due_count(2)

C29_ReviewedCardLeavesDueAndNew ==
  [][(response'.view = "review_card" /\ response'.status = 200) =>
       \A pk \in DOMAIN cards' :
         accepted'[pk] = accepted[pk] + 1 =>
           /\ cards'[pk].interval >= 1
           /\ cards'[pk].next_review > now
           /\ ~(cards'[pk].has_been_reviewed /\ cards'[pk].next_review <= now')
           /\ cards'[pk].has_been_reviewed]_vars

\* a quality-0 review of a card that had reached a 6-day interval
C29_Witness ==
  /\ response.view = "review_card"
  /\ response.status = 200
  /\ response.quality = 0
  /\ \E pk \in DOMAIN cards :
       LET logs == LogsOf(review_logs, pk)
       IN  /\ Len(logs) = 3
           /\ logs[3].interval_before = 6
           /\ logs[3].quality = 0
           /\ cards[pk].interval = 1
           /\ cards[pk].next_review = now + 1

\* C21: after a confirmed deck_reset every card of the deck is in the state
\* a newly created card has (ease factor 2.5, interval 0, repetitions 0,
\* never reviewed), so that the session queries take it as new, not as due.
C21_ResetRestoresInitialState ==
  (response.view = "deck_reset" /\ response.status = 200) =>
    \A pk \in DOMAIN cards :
      cards[pk].deck = response.deck =>
        /\ cards[pk].ease_factor = DEFAULT_EASE_FACTOR
        /\ cards[pk].interval = 0
        /\ cards[pk].repetitions = 0
        /\ cards[pk].last_reviewed = NoTime
        /\ ~cards[pk].has_been_reviewed
        /\ pk \in new_cards_query(response.deck)
        /\ pk \notin due_cards_query(response.deck)

(***************************************************************************)
(* SelSpec: the three session views over the databases the program reaches *)
(* by creating up to MaxSelCards cards on day 0 and reviewing each of them *)
(* at most once, on day 0 or on day SelNow; the sessions are requested on  *)
(* day SelNow.  The database is built by replaying that history with    *)
(* the operators the requests use.                                         *)
(***************************************************************************)
NoReview == [quality |-> -1, day |-> 0]
DeckList == <<1, 2>>
ContentList ==
  << [card_type |-> "basic", front |-> <<>>],
     [card_type |-> "cloze", front |-> <<1, 2, 1>>] >>

\* the reviews a card can have had: none, or one of quality 1 (which leaves
\* the ease at 1.96) or 4 (which leaves it at 2.5), on day 0 (the card is due
\* again by day SelNow) or on day SelNow itself (it is not)
ReviewChoice(r) ==
  IF r = 0 THEN NoReview
  ELSE [quality |-> IF (r - 1) % 2 = 0 THEN 1 ELSE 4,
        day     |-> IF (r - 1) \div 2 = 0 THEN 0 ELSE SelNow]
NumReviewChoices == Cardinality({ReviewChoice(r) : r \in 0..4})
NumCardChoices == Len(DeckList) * Len(ContentList) * NumReviewChoices

\* what happens to one card: where it is created, what it holds, its review
SelCardChoice(i) ==
  [deck    |-> DeckList[(i \div (Len(ContentList) * NumReviewChoices)) + 1],
   content |-> ContentList[((i \div NumReviewChoices) % Len(ContentList)) + 1],
   review  |-> ReviewChoice(i % NumReviewChoices)]

\* The views treat primary keys as opaque, so of the histories that differ
\* only in which pk got which card, the one with the choices in order stands
\* for all.
SelHistories(n) ==
  {[pk \in 1..n |-> SelCardChoice(c[pk])] :
     c \in {d \in [1..n -> 0..(NumCardChoices - 1)] :
              \A i \in 1..n : \A j \in 1..n : i < j => d[i] <= d[j]}}

\* the database after the reviews of day..SelNow, cards pk..n first
RECURSIVE Replay(_, _, _, _)
Replay(h, db, day, pk) ==
  IF day > SelNow THEN db
  ELSE IF pk > Len(h) THEN Replay(h, db, day + 1, 1)
  ELSE IF h[pk].review # NoReview /\ h[pk].review.day = day
    THEN Replay(h, ReviewEffect(db, pk, h[pk].review.quality, day), day, pk + 1)
    ELSE Replay(h, db, day, pk + 1)

Created(h) ==
  [cards       |-> [pk \in 1..Len(h) |-> NewCard(h[pk].deck, h[pk].content, 0)],
   review_logs |-> <<>>,
   prefs       |-> InitPrefs,
   email_log   |-> <<>>,
   accepted    |-> [pk \in Pks |-> 0]]

SelInit ==
  /\ now = SelNow
  /\ \E n \in 0..MaxSelCards : \E h \in SelHistories(n) :
       LET db == Replay(h, Created(h), 0, 1)
       IN  /\ cards = db.cards
           /\ review_logs = db.review_logs
           /\ prefs = db.prefs
           /\ email_log = db.email_log
           /\ accepted = db.accepted
           /\ next_pk = n + 1
  /\ \E m \in 0..MaxLimit : \E k \in 0..MaxLimit : limits = Limits(m, k)
  /\ steps = 0
  /\ response = NoResponse
  /\ SrsIdle
  /\ ConcIdle

SelNext ==
  \/ \E deck_pk \in Decks \cup {NoDeck} : review_session(deck_pk)
  \/ \E deck_pk \in Decks \cup {NoDeck} : review_struggling(deck_pk)
  \/ \E deck_pk \in Decks \cup {NoDeck} : practice_session(deck_pk)

SelSpec == SelInit /\ [][SelNext]_vars

ItemFronts == {<<>>, <<1>>, <<1, 1>>, <<1, 2, 1>>, <<3, 1, 2>>}
ItemContents == [card_type : {"basic", "cloze", "reverse"}, front : ItemFronts]
ItemChoices ==
  [deck : {1}, content : ItemContents, review : {ReviewChoice(r) : r \in 0..4}]

ItemInit ==
  /\ now = SelNow
  /\ \E n \in 1..MaxItemCards : \E h \in [1..n -> ItemChoices] :
       LET db == Replay(h, Created(h), 0, 1)
       IN  /\ cards = db.cards
           /\ review_logs = db.review_logs
           /\ prefs = db.prefs
           /\ email_log = db.email_log
           /\ accepted = db.accepted
           /\ next_pk = n + 1
  /\ limits = Limits(0, MaxItemCards)
  /\ steps = 0
  /\ response = NoResponse
  /\ SrsIdle
  /\ ConcIdle

ItemNext ==
  \/ review_session(NoDeck)
  \/ review_struggling(NoDeck)
  \/ practice_session(NoDeck)

ItemSpec == ItemInit /\ [][ItemNext]_vars

\* C11 as the specification states it: with N struggling cards, 0 < N < 20,
\* the struggling session answers with a batch of exactly 20 items in which
\* every struggling card appears floor(20/N) or ceil(20/N) times.
C11_StrugglingPaddedEvenlyByCard ==
  LET struggling == {pk \in DOMAIN cards :
                       cards[pk].has_been_reviewed /\ cards[pk].ease_factor < 200}
      N == Cardinality(struggling)
      Times(pk) == BagCardinality(
                     [it \in {x \in BagToSet(response.cards_data) : x[1] = pk}
                        |-> response.cards_data[it]])
  IN  (response.view = "review_struggling" /\ 0 < N /\ N < 20) =>
        /\ response.status = 200
        /\ BagCardinality(response.cards_data) = 20
        /\ \A pk \in struggling :
             \/ Times(pk) = 20 \div N
             \/ Times(pk) = (20 + N - 1) \div N

\* C28: every session view either answers that there is nothing to do
\* (the redirect) or answers with a batch of at least one item, and the
\* struggling session answers with exactly 20 items whenever there is a
\* struggling card, also when the struggling cards are cloze cards without
\* a valid blank.
C28_SessionsAnswerWithItems ==
  LET struggling == {pk \in DOMAIN cards :
                       cards[pk].has_been_reviewed /\ cards[pk].ease_factor < 200}
  IN  /\ response.view \in {"review_session", "review_struggling", "practice_session"} =>
           \/ response.status = 302
           \/ response.status = 200 /\ BagCardinality(response.cards_data) >= 1
      /\ (response.view = "review_struggling" /\ struggling # {}) =>
           /\ response.status = 200
           /\ BagCardinality(response.cards_data) = target_session_size

\* C12: in a session that is neither padded nor cut, a cloze card whose
\* front holds k distinct blank numbers gives exactly k items, one for each
\* of the numbers, and a basic or reverse card gives exactly one item with
\* no active cloze; in the standard and practice sessions each item is
\* there once.
C12_ClozeExpansion ==
  (response.status = 200 /\ response.view # "review_card") =>
    \A pk \in response.cards :
      LET items == {it \in BagToSet(response.cards_data) : it[1] = pk}
          numbers == {cards[pk].front[i] : i \in DOMAIN cards[pk].front}
      IN  /\ IF cards[pk].card_type = "cloze"
                THEN /\ Cardinality(items) = Cardinality(numbers)
                     /\ {it[2] : it \in items} = numbers
                ELSE items = {<<pk, NoCloze>>}
          /\ response.view \in {"review_session", "practice_session"}
               => \A it \in items : response.cards_data[it] = 1

\* a standard session for a cloze card with three blanks, two of them with
\* the same number: two items
C12_Witness ==
  /\ response.view = "review_session"
  /\ response.status = 200
  /\ \E pk \in response.cards :
       /\ cards[pk].card_type = "cloze"
       /\ cards[pk].front = <<1, 2, 1>>
       /\ BagToSet(response.cards_data) = {<<pk, 1>>, <<pk, 2>>}

(***************************************************************************)
(* PopSpec: the session views over a deck large enough for the session     *)
(* size of 20 to matter.  The deck holds basic cards of three kinds:       *)
(*   failed  reviewed once, quality 1, on day 0: struggling, due again     *)
(*   fresh   reviewed once, quality 4, on day SelNow: due on SelNow + 1    *)
(*   learnt  reviewed with quality 4 on day 0 and on day SelNow: due on    *)
(*           SelNow + 6                                                    *)
(* in numbers taken from PopSizes, at most MaxPopulation cards in all.     *)
(***************************************************************************)
PopSizes == (0..3) \cup {7} \cup ((MaxPopulation - 2)..MaxPopulation)

\* the reviews of each card, in the order they are made
PopHistory(failed, fresh, learnt) ==
  [pk \in 1..(failed + fresh + learnt) |->
     IF pk <= failed THEN <<[quality |-> 1, day |-> 0]>>
     ELSE IF pk <= failed + fresh THEN <<[quality |-> 4, day |-> SelNow]>>
     ELSE <<[quality |-> 4, day |-> 0], [quality |-> 4, day |-> SelNow]>>]

\* the database after the reviews of day..SelNow, cards pk..n first
RECURSIVE PopReplay(_, _, _, _)
PopReplay(h, db, day, pk) ==
  IF day > SelNow THEN db
  ELSE IF pk > Len(h) THEN PopReplay(h, db, day + 1, 1)
  ELSE IF \E i \in DOMAIN h[pk] : h[pk][i].day = day
    THEN LET r == h[pk][CHOOSE i \in DOMAIN h[pk] : h[pk][i].day = day]
             after == ReviewEffect(db, pk, r.quality, day)
         IN  \* the test has TLC build each database before the next review
             IF after.accepted[pk] > db.accepted[pk]
               THEN PopReplay(h, after, day, pk + 1)
               ELSE db
    ELSE PopReplay(h, db, day, pk + 1)

PopCreated(n) ==
  [cards       |-> [pk \in 1..n |-> NewCard(1, [card_type |-> "basic", front |-> <<>>], 0)],
   review_logs |-> <<>>,
   prefs       |-> InitPrefs,
   email_log   |-> <<>>,
   accepted    |-> [pk \in 1..n |-> 0]]

PopInit ==
  /\ now = SelNow
  /\ \E failed \in PopSizes : \E fresh \in PopSizes : \E learnt \in PopSizes :
       /\ failed + fresh + learnt <= MaxPopulation
       /\ LET n == failed + fresh + learnt
              db == PopReplay(PopHistory(failed, fresh, learnt), PopCreated(n), 0, 1)
          IN  /\ cards = db.cards
              /\ review_logs = db.review_logs
              /\ prefs = db.prefs
              /\ email_log = db.email_log
              /\ accepted = db.accepted
              /\ next_pk = n + 1
  /\ limits = Limits(0, 0)
  /\ steps = 0
  /\ response = NoResponse
  /\ SrsIdle
  /\ ConcIdle

PopNext ==
  \/ review_session(NoDeck)
  \/ review_struggling(NoDeck)
  \/ practice_session(NoDeck)

PopSpec == PopInit /\ [][PopNext]_vars

\* C13: a practice session holds at most 20 cards, all of them reviewed
\* before and with next_review after now, as many of those as 20 allows,
\* and no card of that kind that is left out has a next_review earlier than
\* a selected card's.
C13_PracticeTakesSoonestTwenty ==
  (response.view = "practice_session" /\ response.status = 200) =>
    LET NotYetDue == {pk \in DOMAIN cards :
                        /\ response.asked = NoDeck \/ cards[pk].deck = response.asked
                        /\ cards[pk].has_been_reviewed
                        /\ cards[pk].next_review > now}
    IN  /\ Cardinality(response.cards) <= 20
        /\ response.cards \subseteq NotYetDue
        /\ Cardinality(NotYetDue) <= 20 => response.cards = NotYetDue
        /\ Cardinality(NotYetDue) > 20 => Cardinality(response.cards) = 20
        /\ \A s \in response.cards : \A u \in NotYetDue \ response.cards :
             cards[u].next_review >= cards[s].next_review
        /\ \A it \in BagToSet(response.cards_data) : it[1] \in response.cards

\* 20 cards selected, due on two different days, and a card due on the
\* later day left out
C13_Witness ==
  /\ response.view = "practice_session"
  /\ response.status = 200
  /\ Cardinality(response.cards) = 20
  /\ \E s \in response.cards : \E t \in response.cards :
       \E u \in DOMAIN cards \ response.cards :
         /\ cards[s].next_review < cards[t].next_review
         /\ cards[u].next_review = cards[t].next_review
         /\ cards[u].has_been_reviewed

\* C15: when the struggling cards expand to more than 20 items, the
\* struggling session answers with exactly 20 items, no item twice, every
\* item an item of a struggling card.
C15_StrugglingTrimmedToTwenty ==
  LET struggling == {pk \in DOMAIN cards :
                       cards[pk].has_been_reviewed /\ cards[pk].ease_factor < 200}
  IN  (response.view = "review_struggling" /\ Cardinality(Serialize(struggling)) > 20) =>
        /\ response.status = 200
        /\ BagCardinality(response.cards_data) = 20
        /\ \A it \in BagToSet(response.cards_data) :
             /\ response.cards_data[it] = 1
             /\ it[1] \in struggling

\* 21 struggling cards, one of them left out of the batch
C15_Witness ==
  /\ response.view = "review_struggling"
  /\ response.status = 200
  /\ Cardinality(response.cards) = 21
  /\ Cardinality(BagToSet(response.cards_data)) = 20
  /\ \E pk \in response.cards : <<pk, NoCloze>> \notin BagToSet(response.cards_data)

(***************************************************************************)
(* DaySpec: one day of standard sessions.  The database holds one to       *)
(* MaxDayCards cards of deck 1, basic or cloze, each new or reviewed once  *)
(* on day 0 (and so due); the clock stays at SelNow and no card is added.  *)
(* The user requests a standard session, answers the items of the batch    *)
(* one by one, each answer a review_card request, and requests the next    *)
(* batch when none is left, until the view answers that there is nothing   *)
(* to do.  The grades are the lowest one, the lowest passing one and the   *)
(* highest one.  The page shows the items in the order random.shuffle left *)
(* them in; the reviews of a batch change different rows or, for two items *)
(* of one card, are tried with every pair of grades, so one order stands   *)
(* for all: the item with the least (pk, cloze number) is answered next.   *)
(***************************************************************************)
DayQualities == {0, 3, 5}

\* the item the page shows next, if any
NextItems(remaining) ==
  {item \in BagToSet(remaining) :
     \A other \in BagToSet(remaining) :
       \/ item[1] < other[1]
       \/ item[1] = other[1] /\ item[2] <= other[2]}

DayReviews == <<NoReview, [quality |-> 4, day |-> 0]>>
DayChoice(i) ==
  [deck    |-> 1,
   content |-> ContentList[(i \div Len(DayReviews)) + 1],
   review  |-> DayReviews[(i % Len(DayReviews)) + 1]]

\* as in SelHistories, the history with the choices in order stands for
\* those that differ only in which pk got which card
DayHistories(n) ==
  {[pk \in 1..n |-> DayChoice(c[pk])] :
     c \in {d \in [1..n -> 0..(Len(ContentList) * Len(DayReviews) - 1)] :
              \A i \in 1..n : \A j \in 1..n : i < j => d[i] <= d[j]}}

DayInit ==
  /\ now = SelNow
  /\ \E n \in 1..MaxDayCards : \E h \in DayHistories(n) :
       LET db == Replay(h, Created(h), 0, 1)
       IN  /\ cards = db.cards
           /\ review_logs = db.review_logs
           /\ prefs = db.prefs
           /\ email_log = db.email_log
           /\ accepted = db.accepted
           /\ next_pk = n + 1
  /\ \E m \in 0..MaxLimit : \E k \in 0..MaxLimit : limits = Limits(m, k)
  /\ steps = 0
  /\ response = NoResponse
  /\ SrsIdle
  /\ ConcIdle

\* the page asks for a batch when it holds no item to answer
request_batch ==
  /\ session.state \in {"NotStarted", "InProgress"}
  /\ BagToSet(session.remaining) = {}
  /\ review_session(NoDeck)

\* the user grades an item of the batch: the page posts the quality to
\* review_card for the item's card and moves on to the next item
answer_card(item, quality) ==
  /\ item \in BagToSet(session.remaining)
  /\ LET db == ReviewEffect(Db, item[1], quality, now)
     IN  /\ cards' = db.cards
         /\ review_logs' = db.review_logs
         /\ prefs' = db.prefs
         /\ email_log' = db.email_log
         /\ accepted' = db.accepted
  /\ steps' = steps + 1
  /\ response' = Reply("review_card", 200, quality)
  /\ session' = [session EXCEPT !.remaining = session.remaining (-) SetToBag({item})]
  /\ UNCHANGED <<now, next_pk, limits>>
  /\ UNCHANGED <<srsVars, concVars>>

DayNext ==
  \/ request_batch
  \/ \E item \in NextItems(session.remaining) : \E quality \in DayQualities :
       answer_card(item, quality)

DaySpec == DayInit /\ [][DayNext]_vars

\* the user goes on as long as the page has something to do
DayFairSpec == DaySpec /\ WF_vars(DayNext)

EaseInputs == MIN_EASE_FACTOR..MaxEaseInput

SrsInit ==
  /\ now = 0
  /\ EmptyDb
  /\ srs_card \in [ease_factor : EaseInputs,
                   interval    : 0..MaxIntervalInput,
                   repetitions : 0..MaxRepsInput,
                   next_review : {0}]
  /\ srs_call = NoCall
  /\ retention = NoRetention
  /\ ConcIdle

\* calculate_review(ease, interval, repetitions, quality, review_time=now)
SrsReview(quality) ==
  /\ IF InvalidQuality(quality)
       THEN /\ srs_call' = [srs_call EXCEPT !.raised = TRUE]
            /\ UNCHANGED srs_card
       ELSE /\ srs_call.n < MaxSrsReviews
            /\ srs_card' = calculate_review(srs_card.ease_factor, srs_card.interval,
                                            srs_card.repetitions, quality, now)
            /\ srs_call' = [n |-> srs_call.n + 1, quality |-> quality,
                            raised |-> FALSE, before |-> srs_card]
  /\ UNCHANGED <<dbVars, response, retention, concVars, clientVars>>

SrsNext == \E quality \in -1..6 : SrsReview(quality)

SrsSpec == SrsInit /\ [][SrsNext]_vars

\* C1: starting from an ease factor of at least 1.3, after any sequence of
\* accepted reviews with qualities in 0..5 the ease factor is still at
\* least 1.3.
C1_EaseNeverBelowMinimum == srs_card.ease_factor >= MIN_EASE_FACTOR

\* two quality-0 reviews in a row starting exactly at the floor
C1_Witness ==
  /\ srs_call.n >= 2
  /\ srs_call.quality = 0
  /\ srs_call.before.ease_factor = MIN_EASE_FACTOR
  /\ srs_card.ease_factor = MIN_EASE_FACTOR

\* C2: after a review with quality 0, 1 or 2 the interval is 1 and the
\* repetition count is 0, whatever the interval, repetitions and ease factor
\* were before.
C2_FailedReviewResets ==
  (srs_call.n > 0 /\ srs_call.quality \in 0..2)
    => (srs_card.interval = 1 /\ srs_card.repetitions = 0)

\* a failed review of a card that had two repetitions and a 3-day interval
C2_Witness ==
  /\ srs_call.n > 0
  /\ srs_call.quality = 1
  /\ srs_call.before.repetitions = 2
  /\ srs_call.before.interval = 3
  /\ srs_card.interval = 1
  /\ srs_card.repetitions = 0

\* C3: after a review with quality 3, 4 or 5 the repetition count is the
\* prior count plus one, and the interval is 1 if the prior count was 0, 6 if
\* it was 1, and otherwise the integer nearest to (prior interval * prior
\* ease factor), a tie going to the even integer; the ease factor is the
\* one the card had before this review.
C3_SuccessfulReviewAdvances ==
  (srs_call.n > 0 /\ srs_call.quality \in 3..5) =>
    LET prior == srs_call.before
        product == prior.interval * prior.ease_factor   \* in hundredths
        dist == 100 * srs_card.interval - product
        twice == IF dist >= 0 THEN 2 * dist ELSE -2 * dist
    IN  /\ srs_card.repetitions = prior.repetitions + 1
        /\ prior.repetitions = 0 => srs_card.interval = 1
        /\ prior.repetitions = 1 => srs_card.interval = 6
        /\ prior.repetitions >= 2 =>
              \/ twice < 100
              \/ twice = 100 /\ srs_card.interval % 2 = 0

\* a passing review of a card in its third repetition whose ease factor the
\* review lowers: 3 days * 2.50 = 7.5, rounded to 8
C3_Witness ==
  /\ srs_call.n > 0
  /\ srs_call.quality = 3
  /\ srs_call.before.repetitions = 2
  /\ srs_call.before.interval = 3
  /\ srs_call.before.ease_factor = 250
  /\ srs_card.ease_factor = 236
  /\ srs_card.interval = 8
  /\ srs_card.repetitions = 3

\* C16: a review with quality 4 leaves the ease factor exactly as it was,
\* for every ease factor a card can have (1.3 and above).
C16_GoodResponseMaintainsEase ==
  (srs_call.n > 0 /\ srs_call.quality = 4)
    => srs_card.ease_factor = srs_call.before.ease_factor

\* quality 4 on a card just above the floor
C16_Witness ==
  /\ srs_call.n > 0
  /\ srs_call.quality = 4
  /\ srs_call.before.ease_factor = 131
  /\ srs_card.ease_factor = 131

\* C17 as the specification states it: after a review with quality 0, 1 or
\* 2 the ease factor is strictly less than before, whatever it was.
C17_WrongResponseDecreasesEase ==
  (srs_call.n > 0 /\ srs_call.quality \in 0..2)
    => srs_card.ease_factor < srs_call.before.ease_factor

\* C17: after a review with quality 0, 1 or 2 the ease factor is strictly
\* less than before when it was above 1.3, and stays 1.3 when it was 1.3.
C17_WrongResponseDecreasesEaseAboveFloor ==
  (srs_call.n > 0 /\ srs_call.quality \in 0..2) =>
    IF srs_call.before.ease_factor > 130
      THEN srs_card.ease_factor < srs_call.before.ease_factor
      ELSE srs_card.ease_factor = 130

\* a failed review above the floor that lands on it, after which the next
\* failed review leaves the ease factor where it is
C17_Witness ==
  /\ srs_call.n = 2
  /\ srs_call.quality = 2
  /\ srs_call.before.ease_factor = 130
  /\ srs_card.ease_factor = 130

\* C18: the new ease factor is max(1.3, e + adj) with adj = -0.80, -0.54,
\* -0.32, -0.14, 0, +0.10 for quality 0, 1, 2, 3, 4, 5; quality 5 gives
\* exactly e + 0.1; and from the ease factor the card has now, a higher
\* quality never gives a lower ease factor than a lower quality.
C18_EaseFactorFormula ==
  /\ srs_call.n > 0 =>
        LET adj == <<-80, -54, -32, -14, 0, 10>>
            e == srs_call.before.ease_factor
            sum == e + adj[srs_call.quality + 1]
        IN  /\ srs_card.ease_factor = IF sum >= 130 THEN sum ELSE 130
            /\ srs_call.quality = 5 => srs_card.ease_factor = e + 10
  /\ \A q1, q2 \in 0..5 :
        q1 <= q2 => calculate_ease_factor(srs_card.ease_factor, q1)
                      <= calculate_ease_factor(srs_card.ease_factor, q2)

\* quality 3 from 1.50 gives 1.36, above the floor
C18_Witness ==
  /\ srs_call.n > 0
  /\ srs_call.quality = 3
  /\ srs_call.before.ease_factor = 150
  /\ srs_card.ease_factor = 136

(***************************************************************************)
(* RetSpec: estimate_retention as a function, called with intervals        *)
(* 0..MaxIntervalInput and with ease factors at the floor, at the default  *)
(* and around the value where the estimate reaches 0.99; the state keeps   *)
(* the last two calls.                                                     *)
(***************************************************************************)
RetentionEases ==
  (MIN_EASE_FACTOR..(MIN_EASE_FACTOR + 4)) \cup {DEFAULT_EASE_FACTOR}
    \cup ((MaxRetentionEase - 6)..MaxRetentionEase)

estimate_retention_call(interval, ease_factor) ==
  /\ retention' =
       [n      |-> IF retention.n < 2 THEN retention.n + 1 ELSE 2,
        last   |-> [interval |-> interval, ease_factor |-> ease_factor,
                    value |-> estimate_retention(interval, ease_factor)],
        before |-> retention.last]
  /\ UNCHANGED <<dbVars, response, srs_card, srs_call, concVars, clientVars>>

RetNext ==
  \E interval \in 0..MaxIntervalInput : \E ease_factor \in RetentionEases :
    estimate_retention_call(interval, ease_factor)

RetSpec == Init /\ [][RetNext]_vars

\* C22 as the specification states it: the estimate lies in (0, 1], and
\* for the same interval a strictly higher ease factor gives a strictly
\* higher estimate.
C22_RetentionStrictlyIncreasing ==
  /\ retention.n > 0 =>
       (0 < retention.last.value /\ retention.last.value <= 2400)
  /\ (retention.n > 1
        /\ retention.before.interval = retention.last.interval
        /\ retention.before.ease_factor < retention.last.ease_factor)
       => retention.before.value < retention.last.value

\* C22: the estimate lies in (0, 1]; for the same interval a strictly
\* higher ease factor gives a strictly higher estimate when the lower ease
\* factor is below 3.46, and the same estimate, 0.99, when the lower ease
\* factor is 3.46 or more.
C22_RetentionIncreasingUpToCap ==
  /\ retention.n > 0 =>
       (0 < retention.last.value /\ retention.last.value <= 2400)
  /\ (retention.n > 1
        /\ retention.before.interval = retention.last.interval
        /\ retention.before.ease_factor < retention.last.ease_factor)
       => IF retention.before.ease_factor < 346
            THEN retention.before.value < retention.last.value
            ELSE /\ retention.before.value = retention.last.value
                 /\ 100 * retention.last.value = 99 * 2400

\* the estimates for ease factors 3.46 and 3.50 at the same interval
C22_Witness ==
  /\ retention.n > 1
  /\ retention.before.interval = retention.last.interval
  /\ retention.before.ease_factor = 346
  /\ retention.last.ease_factor = 350
  /\ retention.before.value = retention.last.value

(***************************************************************************)
(* ConcSpec: review_card requests served by two workers at once.  Each     *)
(* database statement of the view is a step of its own: the SELECT of      *)
(* get_object_or_404, the UPDATE of card.save(), the INSERT of the         *)
(* ReviewLog, the SELECT and the UPDATE of the preferences row, and in     *)
(* check_and_send_achievements the SELECT of user.preferences, the COUNT   *)
(* of the ReviewLog rows and, for every achievement whose threshold is     *)
(* reached, the SELECT and the INSERT of its EmailLog row.  The view opens *)
(* no transaction and takes no lock.                                       *)
(* The database holds two cards created on day 0.                          *)
(***************************************************************************)
Workers == {1, 2}
ConcPks == {1, 2}

\* request bodies sent by the clients: a failing grade, a passing grade, a
\* grade out of range, and a body without a quality
ConcBodies ==
  {[kind |-> "int", v |-> 1], [kind |-> "int", v |-> 4], [kind |-> "int", v |-> 6]}
    \cup {b \in Bodies : b.kind # "int"}

Idle ==
  [pc |-> "idle", pk |-> 0, quality |-> 0, card |-> NoSchedule, prefs |-> InitPrefs,
   total_reviews |-> 0, streak |-> 0, key |-> 0]

\* review_achievements followed by streak_achievements, as the two loops of
\* check_and_send_achievements go through them
Achievements == ReviewAchievements \o StreakAchievements

\* The request after the loops have passed the achievements before index i:
\* at the next achievement whose threshold its statistic reaches, or done
\* with the check when there is none.
NextAchievement(r, i) ==
  LET Stat(j) == IF j <= Len(ReviewAchievements) THEN r.total_reviews ELSE r.streak
      reached == {j \in i..Len(Achievements) : Stat(j) >= Achievements[j].threshold}
  IN  IF reached = {} THEN [r EXCEPT !.pc = "checked", !.key = 0]
      ELSE [r EXCEPT !.pc = "reached",
                     !.key = CHOOSE j \in reached : \A k \in reached : j <= k]

ConcInit ==
  /\ now = 0
  /\ cards = [pk \in ConcPks |-> NewCard(1, [card_type |-> "basic", front |-> <<>>], 0)]
  /\ review_logs = <<>>
  /\ prefs = InitPrefs
  /\ limits = Limits(0, 0)
  /\ email_log = <<>>
  /\ next_pk = Cardinality(ConcPks) + 1
  /\ accepted = [pk \in Pks |-> 0]
  /\ steps = 0
  /\ response = NoResponse
  /\ SrsIdle
  /\ reqs = [w \in Workers |-> Idle]
  /\ submitted = <<>>
  /\ session = NoSession

\* card = get_object_or_404(Card, pk=pk, ...); the body is parsed and the
\* quality range checked before anything else touches the database
ConcLoad(w, pk, body) ==
  /\ reqs[w].pc = "idle"
  /\ IF pk \notin DOMAIN cards
       THEN /\ response' = Reply("review_card", 404, 0)
            /\ UNCHANGED <<reqs, submitted>>
     ELSE IF body.kind = "invalid" \/ InvalidQuality(ParsedQuality(body))
       THEN /\ response' = Reply("review_card", 400, ParsedQuality(body))
            /\ UNCHANGED <<reqs, submitted>>
     ELSE /\ Len(submitted) < MaxSubmissions
          /\ reqs' = [reqs EXCEPT ![w] = [Idle EXCEPT !.pc = "loaded", !.pk = pk,
                                                       !.quality = ParsedQuality(body),
                                                       !.card = cards[pk]]]
          /\ submitted' = Append(submitted, [pk |-> pk, quality |-> ParsedQuality(body)])
          /\ response' = NoResponse
  /\ UNCHANGED <<dbVars, srsVars, clientVars>>

\* Card.review up to self.save(): computed from the instance the worker
\* loaded, every column written
ConcSave(w) ==
  /\ reqs[w].pc = "loaded"
  /\ cards' = [cards EXCEPT ![reqs[w].pk] =
                 CardReviewRow(reqs[w].card, reqs[w].quality, now)]
  /\ reqs' = [reqs EXCEPT ![w].pc = "saved"]
  /\ response' = NoResponse
  /\ UNCHANGED <<now, review_logs, prefs, limits, email_log, next_pk, accepted, steps>>
  /\ UNCHANGED <<srsVars, submitted, clientVars>>

\* Card.review: ReviewLog.objects.create(...)
ConcLog(w) ==
  /\ reqs[w].pc = "saved"
  /\ review_logs' = Append(review_logs,
                           CardReviewLog(reqs[w].pk, reqs[w].card, reqs[w].quality, now))
  /\ reqs' = [reqs EXCEPT ![w].pc = "logged"]
  /\ response' = NoResponse
  /\ UNCHANGED <<now, cards, prefs, limits, email_log, next_pk, accepted, steps>>
  /\ UNCHANGED <<srsVars, submitted, clientVars>>

\* prefs = get_or_create_preferences(request.user)
ConcLoadPrefs(w) ==
  /\ reqs[w].pc = "logged"
  /\ reqs' = [reqs EXCEPT ![w].pc = "prefs", ![w].prefs = prefs]
  /\ response' = NoResponse
  /\ UNCHANGED <<dbVars, srsVars, submitted, clientVars>>

\* prefs.update_streak(): self.save() of the instance the worker loaded
ConcStreak(w) ==
  /\ reqs[w].pc = "prefs"
  /\ prefs' = update_streak(reqs[w].prefs, now)
  /\ reqs' = [reqs EXCEPT ![w].pc = "streak", ![w].prefs = update_streak(reqs[w].prefs, now)]
  /\ response' = NoResponse
  /\ UNCHANGED <<now, cards, review_logs, limits, email_log, next_pk, accepted, steps>>
  /\ UNCHANGED <<srsVars, submitted, clientVars>>

\* check_and_send_achievements: can_send_email reads user.preferences (the
\* row stays cached on the user object: prefs.current_streak is read from it)
ConcCanSend(w) ==
  /\ reqs[w].pc = "streak"
  /\ reqs' = [reqs EXCEPT ![w].pc = IF can_send_email(prefs) THEN "can_send" ELSE "checked",
                          ![w].streak = prefs.current_streak]
  /\ response' = NoResponse
  /\ UNCHANGED <<dbVars, srsVars, submitted, clientVars>>

\* total_reviews = ReviewLog.objects.filter(card__deck__owner=user).count()
ConcCount(w) ==
  /\ reqs[w].pc = "can_send"
  /\ reqs' = [reqs EXCEPT ![w] =
                 NextAchievement([reqs[w] EXCEPT !.total_reviews = Len(review_logs)], 1)]
  /\ response' = NoResponse
  /\ UNCHANGED <<dbVars, srsVars, submitted, clientVars>>

\* _award_achievement_if_new: existing = EmailLog.objects.filter(...).first()
ConcExisting(w) ==
  /\ reqs[w].pc = "reached"
  /\ reqs' = [reqs EXCEPT ![w] =
                 IF SeqHas(email_log, Achievements[reqs[w].key].key)
                   THEN NextAchievement(reqs[w], reqs[w].key + 1)
                   ELSE [reqs[w] EXCEPT !.pc = "new"]]
  /\ response' = NoResponse
  /\ UNCHANGED <<dbVars, srsVars, submitted, clientVars>>

\* _award_achievement_if_new: EmailLog.objects.create(...) and the email
ConcAward(w) ==
  /\ reqs[w].pc = "new"
  /\ email_log' = Append(email_log, Achievements[reqs[w].key].key)
  /\ reqs' = [reqs EXCEPT ![w] = NextAchievement(reqs[w], reqs[w].key + 1)]
  /\ response' = NoResponse
  /\ UNCHANGED <<now, cards, review_logs, prefs, limits, next_pk, accepted, steps>>
  /\ UNCHANGED <<srsVars, submitted, clientVars>>

\* the JSON answer
ConcRespond(w) ==
  /\ reqs[w].pc = "checked"
  /\ accepted' = [accepted EXCEPT ![reqs[w].pk] = accepted[reqs[w].pk] + 1]
  /\ reqs' = [reqs EXCEPT ![w] = Idle]
  /\ response' = Reply("review_card", 200, reqs[w].quality)
  /\ UNCHANGED <<now, cards, review_logs, prefs, limits, email_log, next_pk, steps>>
  /\ UNCHANGED <<srsVars, submitted, clientVars>>

ConcNext ==
  \/ \E w \in Workers : \E pk \in ConcPks \cup {next_pk} : \E body \in ConcBodies :
       ConcLoad(w, pk, body)
  \/ \E w \in Workers : ConcSave(w)
  \/ \E w \in Workers : ConcLog(w)
  \/ \E w \in Workers : ConcLoadPrefs(w)
  \/ \E w \in Workers : ConcStreak(w)
  \/ \E w \in Workers : ConcCanSend(w)
  \/ \E w \in Workers : ConcCount(w)
  \/ \E w \in Workers : ConcExisting(w)
  \/ \E w \in Workers : ConcAward(w)
  \/ \E w \in Workers : ConcRespond(w)

ConcSpec == ConcInit /\ [][ConcNext]_vars

\* C5: once every submitted review has been answered, each card's schedule
\* is the one that the reviews submitted for it give when they are applied
\* to the card one after the other, in some order.
C5_ConcurrentReviewsSerializable ==
  (\A w \in Workers : reqs[w].pc = "idle") =>
    \A pk \in ConcPks :
      LET mine == {i \in DOMAIN submitted : submitted[i].pk = pk}
          n == Cardinality(mine)
          orders == {o \in [1..n -> mine] : \A i, j \in 1..n : o[i] = o[j] => i = j}
          fresh == NewCard(1, [card_type |-> "basic", front |-> <<>>], 0)
      IN  \E o \in orders :
            Schedule(cards[pk]) =
              Schedule(SerialReviews(fresh, [i \in 1..n |-> submitted[o[i]].quality], now))

\* C25: each achievement is awarded (EmailLog row created, email sent) at
\* most once, also when review_card requests run at the same time.
C25_AchievementAwardedAtMostOnce ==
  \A i \in DOMAIN email_log : \A j \in DOMAIN email_log :
    email_log[i] = email_log[j] => i = j

\* C20: once no review of a card is under way, the card's latest ReviewLog
\* row holds as ease_factor_after and interval_after the ease factor and
\* interval stored on the card, and each ReviewLog row of the card holds as
\* ease_factor_before and interval_before the ease_factor_after and
\* interval_after of the row before it.
C20_LogChainsBeforeAndAfter ==
  \A pk \in DOMAIN cards :
    LET logs == LogsOf(review_logs, pk)
        busy == \E w \in DOMAIN reqs : reqs[w].pc # "idle" /\ reqs[w].pk = pk
    IN  /\ (logs # <<>> /\ ~busy) =>
             /\ logs[Len(logs)].ease_factor_after = cards[pk].ease_factor
             /\ logs[Len(logs)].interval_after = cards[pk].interval
        /\ \A i \in 2..Len(logs) :
             /\ logs[i].ease_factor_before = logs[i - 1].ease_factor_after
             /\ logs[i].interval_before = logs[i - 1].interval_after

(***************************************************************************)
(* StreakSpec: the streak over several days.  One card exists; the user    *)
(* has studied (answered in practice mode) on some of the days before      *)
(* today, today being day 0..MaxStreakDay; from there review_card and      *)
(* practice_card requests arrive and days pass.                            *)
(***************************************************************************)
\* the preferences after update_streak on the days of D from day on
RECURSIVE StreakReplay(_, _, _, _)
StreakReplay(D, p, day, last) ==
  IF day > last THEN p
  ELSE StreakReplay(D, IF day \in D THEN update_streak(p, day) ELSE p, day + 1, last)

StreakInit ==
  /\ now \in 0..MaxStreakDay
  /\ cards = (1 :> NewCard(1, [card_type |-> "basic", front |-> <<>>], 0))
  /\ review_logs = <<>>
  /\ \E D \in SUBSET (0..(now - 1)) : prefs = StreakReplay(D, InitPrefs, 0, now - 1)
  /\ limits = Limits(0, 0)
  /\ email_log = <<>>
  /\ next_pk = 2
  /\ accepted = [pk \in Pks |-> 0]
  /\ steps = 0
  /\ response = NoResponse
  /\ SrsIdle
  /\ ConcIdle

StreakNext ==
  \/ \E pk \in RequestPks : \E body \in ConcBodies : review_card(pk, body)
  \/ \E pk \in RequestPks : \E body \in ConcBodies : practice_card(pk, body)
  \/ Tick

StreakSpec == StreakInit /\ [][StreakNext]_vars

\* C30: every streak update (an accepted review or practice answer) leaves
\* longest_streak >= current_streak >= 1 and last_study_date = today; it
\* changes nothing when last_study_date was today already, raises
\* current_streak by exactly 1 when last_study_date was yesterday, and sets
\* current_streak to 1 when it was earlier than that or when there was no
\* study before.
C30_StreakUpdate ==
  [][(response'.status = 200 /\ response'.view \in {"review_card", "practice_card"}) =>
       /\ prefs'.last_study_date = now
       /\ prefs'.current_streak >= 1
       /\ prefs'.longest_streak >= prefs'.current_streak
       /\ prefs'.longest_streak >= prefs.longest_streak
       /\ prefs.last_study_date = NoTime => prefs'.current_streak = 1
       /\ prefs.last_study_date # NoTime =>
            /\ prefs.last_study_date = now => prefs' = prefs
            /\ prefs.last_study_date = now - 1 =>
                 prefs'.current_streak = prefs.current_streak + 1
            /\ prefs.last_study_date < now - 1 => prefs'.current_streak = 1]_vars

\* an answer after a gap: the streak is back at 1, the longest one was 2
C30_Witness ==
  /\ response.status = 200
  /\ response.view = "practice_card"
  /\ prefs.current_streak = 1
  /\ prefs.longest_streak = 2
  /\ prefs.last_study_date = now

====
